---- MODULE Spec2Model ----
(***************************************************************************)
(* RingBuffer<T> (include/RingBuffer.hpp): a ring buffer whose backing     *)
(* object of m_size_bytes bytes is mapped twice, back to back, in a        *)
(* reservation of 2 * m_size_bytes bytes.                                  *)
(*                                                                         *)
(* Memory is modelled at byte granularity: `mem` is the backing object,    *)
(* virtual byte v of the reservation is backing byte v % m_size_bytes, and *)
(* element slot i of m_buffer is the virtual bytes                         *)
(* [i * sizeof(T), (i + 1) * sizeof(T)).  Elements are their object        *)
(* representation (a sequence of sizeof(T) bytes); the n-th element ever   *)
(* written is given bytes that occur nowhere else, so a misplaced or torn  *)
(* element is always visible.  The code never inspects element contents    *)
(* (memcpy only), so every other input is a renaming of this one.          *)
(***************************************************************************)
EXTENDS Integers, Sequences, FiniteSets, TLC

VARIABLES page_size, elem_size, m_size_bytes, m_capacity, m_head, m_tail,
          mem, status, written, fifo, hist

\* a freshly constructed buffer of the same capacity that is given the same
\* calls as the buffer since its latest clear (observation only)
VARIABLES shadow

\* The process and the operating system around the buffer:
\*   ps_static  get_page_size's function-local static (0: not initialised)
\*   queries    number of sysconf(_SC_PAGESIZE) calls made so far
\*   fds        number of open memfd descriptors
\*   maps       the reservation held (bytes; 0: none) and its two halves
\*   errno      the thread's errno: the call that set it last
\*   result     how the latest constructor call ended
\*   oslog      the system calls of the latest constructor call, in order
VARIABLES ps_static, queries, fds, maps, errno, result, oslog

\* the RingBuffer objects of a program that moves buffers around, and the
\* number of munmap calls made on each mapped region
VARIABLES objs, unmaps

osVars == <<ps_static, queries, fds, maps, errno, result, oslog, objs, unmaps>>

vars == <<page_size, elem_size, m_size_bytes, m_capacity, m_head, m_tail,
          mem, status, written, fifo, hist, shadow,
          ps_static, queries, fds, maps, errno, result, oslog, objs, unmaps>>

(* ---------------------------- bounds ---------------------------------- *)
MaxReq == 2
MaxLen == 4
MaxOut == 4
MaxWritten == 5
HistLen == 3
WrapMaxWritten == 18
ClearMaxWritten == 6
WordBits == 5
MaxQueries == 3
MaxObjs == 3

\* host page sizes and sizeof(T)
PageSizes == {2, 4}
ElemSizes == {1, 3}

\* test_wrap_around: RingBuffer<char>, padding of capacity - 10 elements,
\* overlap of 12 elements; the pages are large enough for the padding
WrapPageSizes == {12, 16}
WrapShort == 10
WrapOverlap == 12

(* --------------------------- helpers ---------------------------------- *)
Min(a, b) == IF a < b THEN a ELSE b

SetMax(S) == CHOOSE x \in S : \A y \in S : y <= x

\* the last n elements of s
LastN(s, n) == IF Len(s) <= n THEN s ELSE SubSeq(s, Len(s) - n + 1, Len(s))

\* the first n elements of s
FirstN(s, n) == SubSeq(s, 1, Min(n, Len(s)))

\* s without its first n elements
DropN(s, n) == IF n >= Len(s) THEN <<>> ELSE SubSeq(s, n + 1, Len(s))

\* a byte read from outside the reservation
Garbage == -1

\* object representation of the n-th element ever written: es bytes,
\* all nonzero (a fresh mapping is zero-filled) and used by no other element
Elem(n, es) == [k \in 1..es |-> (n - 1) * es + k]

\* the span handed to write: elements number first+1 .. first+L
Data(first, L, es) == [i \in 1..L |-> Elem(first + i, es)]

\* byte b (from 0) of a span of elements of es bytes
SpanByte(data, b, es) == data[(b \div es) + 1][(b % es) + 1]

(* ------------------------ construction -------------------------------- *)
\* size_t arithmetic: modulo 2^WordBits
WordMod == 2 ^ WordBits

Word(x) == x % WordMod

round_to_page(sz, ps) ==
    IF sz = 0 THEN ps ELSE Word((Word(sz + ps - 1) \div ps) * ps)

SizeBytes(requested_capacity, es, ps) ==
    round_to_page(Word(requested_capacity * es), ps)

Capacity(bytes, es) == bytes \div es

\* the state after RingBuffer(requested_capacity) returned normally
Constructed(pages, sizes) ==
    /\ page_size \in pages
    /\ elem_size \in sizes
    /\ \E requested_capacity \in 1..MaxReq :
          /\ m_size_bytes = SizeBytes(requested_capacity, elem_size, page_size)
          /\ m_capacity = Capacity(m_size_bytes, elem_size)
    /\ m_head = 0
    /\ m_tail = 0
    /\ mem = [p \in 0..(m_size_bytes - 1) |-> 0]
    /\ status = "ready"
    /\ written = 0
    /\ fifo = <<>>
    /\ hist = <<>>

\* no mapping / the reservation of 2 * bytes with both halves mapped
NoMaps == [reserved |-> 0, first |-> FALSE, second |-> FALSE]

BothHalves(bytes) == [reserved |-> 2 * bytes, first |-> TRUE, second |-> TRUE]

NoResult == [kind |-> "none", what |-> "none", code |-> "none",
             at |-> "none", cause |-> "none", req |-> 0]

\* the process after that constructor call: page size cached, descriptor
\* closed, both halves mapped
OsConstructed ==
    /\ ps_static = page_size
    /\ queries = 1
    /\ fds = 0
    /\ maps = BothHalves(m_size_bytes)
    /\ errno = "none"
    /\ result = NoResult
    /\ oslog = <<>>
    /\ objs = <<>>
    /\ unmaps = <<>>

ShadowOff == [on |-> FALSE, head |-> 0, tail |-> 0, mem |-> <<>>, ret |-> 0, out |-> <<>>]

Init == Constructed(PageSizes, ElemSizes) /\ OsConstructed /\ shadow = ShadowOff

(* ------------------------- the mapping -------------------------------- *)
\* both halves of the reservation map the backing object at file offset 0
Phys(v, bytes) == v % bytes

\* virtual byte v lies in the reservation
InRegion(v, bytes) == v >= 0 /\ v < 2 * bytes

\* memcpy(m_buffer + off, data, n): source bytes 0..n-1 go to virtual bytes
\* vstart..vstart+n-1.  The order of the stores is not specified, and a
\* backing byte stored more than once (n > m_size_bytes) keeps the last
\* store: in ascending order the highest source byte, in descending order
\* the lowest, and when the head of the copy (its first element) is stored
\* after the rest, the head wherever it lands.
StoreOrders == {"ascending", "descending", "head_last"}

Covering(p, vstart, n, bytes) ==
    {b \in 0..(n - 1) : InRegion(vstart + b, bytes) /\ Phys(vstart + b, bytes) = p}

SetMin(S) == CHOOSE x \in S : \A y \in S : x <= y

LastStore(C, order, es) ==
    CASE order = "ascending" -> SetMax(C)
      [] order = "descending" -> SetMin(C)
      [] OTHER -> IF \E b \in C : b < es THEN SetMin(C) ELSE SetMax(C)

CopyIn(m, vstart, data, n, es, bytes, order) ==
    [p \in DOMAIN m |->
        LET C == Covering(p, vstart, n, bytes)
        IN  IF C = {} THEN m[p] ELSE SpanByte(data, LastStore(C, order, es), es)]

\* memcpy(output, m_buffer + off, count * sizeof(T)): the elements copied out
CopyOut(m, vstart, count, es, bytes) ==
    [i \in 1..count |->
        [k \in 1..es |->
            LET v == vstart + (i - 1) * es + (k - 1)
            IN  IF InRegion(v, bytes) THEN m[Phys(v, bytes)] ELSE Garbage]]

\* the copy of n bytes at vstart reaches outside the reservation
Outside(vstart, n, bytes) == vstart + n > 2 * bytes

(* --------------------------- accessors -------------------------------- *)
size == m_head - m_tail

capacity == m_capacity

empty == m_head = m_tail

\* what a read of everything would deliver: the stored elements, oldest first
Contents == CopyOut(mem, (m_tail % m_capacity) * elem_size, size, elem_size, m_size_bytes)

(* ---------------------------- history --------------------------------- *)
\* The calls made since the buffer was last found empty, oldest first
\* (observation only).  A call on an empty buffer starts the history afresh,
\* unless it directly follows a write of no elements; a history longer than
\* HistLen is cut down to the latest call.
AfterEmptyWrite ==
    /\ hist # <<>>
    /\ hist[Len(hist)].op = "write"
    /\ hist[Len(hist)].arg = 0

Push(rec) ==
    IF (m_head = m_tail /\ ~AfterEmptyWrite) \/ Len(hist) >= HistLen
    THEN <<rec>>
    ELSE Append(hist, rec)

Rec(op, arg, ret, data, out, off, outside, done) ==
    [op |-> op, arg |-> arg, ret |-> ret, data |-> data, out |-> out,
     off |-> off, outside |-> outside, done |-> done,
     head |-> m_head, tail |-> m_tail]

(* ----------------------------- write ---------------------------------- *)
\* (variant: the start slot without the modulo)
WriteTargetRaw(head, cap) == head

WriteTarget(head, cap) == head % cap

\* (variant: a write that refuses spans longer than the capacity)
WriteBytesChecked(L, cap, es) == IF L > cap THEN 0 ELSE L * es

\* number of bytes memcpy is asked to copy for a span of L elements
WriteBytes(L, cap, es) == L * es

WriteHead(head, L) == head + L

\* (variant: a write that never discards)
WriteTailKeep(head, tail, cap) == tail

\* (variant: a tail kept wrapped into [0, capacity) when it is moved)
WriteTailWrapped(head, tail, cap) == IF head - tail > cap THEN (head - cap) % cap ELSE tail

WriteTail(head, tail, cap) == IF head - tail > cap THEN head - cap ELSE tail

write(L) ==
    /\ status = "ready"
    /\ LET data == Data(written, L, elem_size)
           target == WriteTarget(m_head, m_capacity)
           n == WriteBytes(L, m_capacity, elem_size)
           outside == Outside(target * elem_size, n, m_size_bytes)
           head1 == WriteHead(m_head, L)
       IN  /\ \E order \in (IF n > m_size_bytes THEN StoreOrders ELSE {"ascending"}) :
                 mem' = CopyIn(mem, target * elem_size, data, n, elem_size,
                               m_size_bytes, order)
           /\ written' = written + L
           /\ fifo' = LastN(fifo \o data, m_capacity)
           \* a copy that leaves the reservation either faults or strays
           \* into whatever lies behind it
           /\ \E fault \in (IF outside THEN BOOLEAN ELSE {FALSE}) :
                 IF fault
                 THEN /\ status' = "crashed"
                      /\ UNCHANGED <<m_head, m_tail>>
                      /\ hist' = Push(Rec("write", L, 0, data, <<>>, target, outside, FALSE))
                 ELSE /\ status' = status
                      /\ m_head' = head1
                      /\ m_tail' = WriteTail(head1, m_tail, m_capacity)
                      /\ hist' = Push(Rec("write", L, 0, data, <<>>, target, outside, TRUE))
    /\ UNCHANGED <<page_size, elem_size, m_size_bytes, m_capacity>>
    /\ UNCHANGED osVars

(* ------------------------------ read ---------------------------------- *)
\* (variant: a read that fills the whole output)
ReadToCopyAll(head, tail, M) == M

ReadToCopy(head, tail, M) == Min(head - tail, M)

\* (variant: a read that always starts at the first slot)
ReadSourceStart(tail, cap) == 0

ReadSource(tail, cap) == tail % cap

\* (variant: m_tail = to_copy instead of m_tail += to_copy)
ReadTailAssign(tail, to_copy) == to_copy

ReadTail(tail, to_copy) == tail + to_copy

read(M) ==
    /\ status = "ready"
    /\ LET to_copy == ReadToCopy(m_head, m_tail, M)
           source == ReadSource(m_tail, m_capacity)
           outside == Outside(source * elem_size, to_copy * elem_size, m_size_bytes)
           out == CopyOut(mem, source * elem_size, to_copy, elem_size, m_size_bytes)
       IN  /\ fifo' = DropN(fifo, M)
           /\ \E fault \in (IF outside THEN BOOLEAN ELSE {FALSE}) :
                 IF fault
                 THEN /\ status' = "crashed"
                      /\ UNCHANGED m_tail
                      /\ hist' = Push(Rec("read", M, 0, <<>>, <<>>, source, outside, FALSE))
                 ELSE /\ status' = status
                      /\ m_tail' = ReadTail(m_tail, to_copy)
                      /\ hist' = Push(Rec("read", M, to_copy, FirstN(fifo, M), out,
                                          source, outside, TRUE))
    /\ UNCHANGED <<page_size, elem_size, m_size_bytes, m_capacity, m_head, mem, written>>
    /\ UNCHANGED osVars

(* ----------------------------- clear ---------------------------------- *)
clear ==
    /\ status = "ready"
    /\ m_head' = 0
    /\ m_tail' = 0
    /\ fifo' = <<>>
    /\ hist' = Push(Rec("clear", 0, 0, <<>>, <<>>, 0, FALSE, TRUE))
    /\ UNCHANGED <<page_size, elem_size, m_size_bytes, m_capacity, mem, status, written>>
    /\ UNCHANGED osVars

(* ------------------------- specifications ----------------------------- *)
\* any caller: writes of any length, reads into outputs of any size, clears
Next ==
    \/ \E L \in 0..MaxLen : written + L <= MaxWritten /\ write(L) /\ UNCHANGED shadow
    \/ \E M \in 0..MaxOut : read(M) /\ UNCHANGED shadow
    \/ clear /\ UNCHANGED shadow

Spec == Init /\ [][Next]_vars

\* a caller that honours the precondition of write, L <= capacity
NextPre ==
    \/ \E L \in 0..Min(MaxLen, m_capacity) :
          written + L <= MaxWritten /\ write(L) /\ UNCHANGED shadow
    \/ \E M \in 0..MaxOut : read(M) /\ UNCHANGED shadow
    \/ clear /\ UNCHANGED shadow

SpecPre == Init /\ [][NextPre]_vars

\* test_wrap_around and callers like it: a RingBuffer<char>, writes of the
\* padding, of the overlap or of one element, reads of one element or of
\* capacity elements
InitWrap == Constructed(WrapPageSizes, {1}) /\ OsConstructed /\ shadow = ShadowOff

NextWrap ==
    \/ \E L \in {1, m_capacity - WrapShort, WrapOverlap} :
          written + L <= WrapMaxWritten /\ write(L) /\ UNCHANGED shadow
    \/ \E M \in {1, m_capacity} : read(M) /\ UNCHANGED shadow
    \/ clear /\ UNCHANGED shadow

SpecWrap == InitWrap /\ [][NextWrap]_vars

(* ------------------- a cleared buffer next to a fresh one -------------- *)
\* the fresh buffer: RingBuffer(requested_capacity) of the same capacity
ShadowFresh ==
    [on |-> TRUE, head |-> 0, tail |-> 0,
     mem |-> [p \in 0..(m_size_bytes - 1) |-> 0], ret |-> 0, out |-> <<>>]

\* write(data) on the fresh buffer, data.size() <= capacity
ShadowWrite(sh, L, data) ==
    LET target == WriteTarget(sh.head, m_capacity)
        head1 == WriteHead(sh.head, L)
    IN  [sh EXCEPT !.mem = CopyIn(sh.mem, target * elem_size, data,
                                  WriteBytes(L, m_capacity, elem_size),
                                  elem_size, m_size_bytes, "ascending"),
                   !.head = head1,
                   !.tail = WriteTail(head1, sh.tail, m_capacity),
                   !.ret = 0,
                   !.out = <<>>]

\* read(output) on the fresh buffer, output.size() = M
ShadowRead(sh, M) ==
    LET to_copy == ReadToCopy(sh.head, sh.tail, M)
        source == ReadSource(sh.tail, m_capacity)
    IN  [sh EXCEPT !.tail = ReadTail(sh.tail, to_copy),
                   !.ret = to_copy,
                   !.out = CopyOut(sh.mem, source * elem_size, to_copy,
                                   elem_size, m_size_bytes)]

NextClear ==
    \/ \E L \in 0..Min(MaxLen, m_capacity) :
          /\ written + L <= ClearMaxWritten
          /\ write(L)
          /\ shadow' = IF shadow.on
                       THEN ShadowWrite(shadow, L, Data(written, L, elem_size))
                       ELSE shadow
    \/ \E M \in 0..MaxOut :
          /\ read(M)
          /\ shadow' = IF shadow.on THEN ShadowRead(shadow, M) ELSE shadow
    \/ clear /\ shadow' = ShadowFresh

SpecClear == Init /\ [][NextClear]_vars

(* -------------------- the constructor and the process ------------------ *)
\* the steps of RingBuffer(requested_capacity) that call the OS, in order
CtorOrder ==
    <<"sysconf", "memfd_create", "ftruncate", "mmap_reserve", "mmap_first",
      "mmap_second">>

StepIndex(step) == CHOOSE i \in 1..Len(CtorOrder) : CtorOrder[i] = step

\* what() of the exception a failing step throws
What(step) ==
    CASE step = "sysconf"      -> "failed to get page size"
      [] step = "memfd_create" -> "memfd_create failed"
      [] step = "ftruncate"    -> "ftruncate failed"
      [] step = "mmap_reserve" -> "mmap reservation failed"
      [] step = "mmap_first"   -> "mmap first half failed"
      [] step = "mmap_second"  -> "mmap second half failed"

\* the first check of the constructor
ZeroAccepted(requested_capacity) == FALSE

ZeroRejected(requested_capacity) == requested_capacity = 0

\* get_page_size: the static is initialised once; an initialiser that threw
\* leaves it uninitialised
CachedNever(ps) == FALSE

Cached(ps) == ps # 0

\* steps the kernel refuses whatever else happens: a length that is negative
\* as off_t, a reservation of 2 * 0 bytes
Forced(bytes) ==
    IF bytes >= WordMod \div 2 THEN "ftruncate"
    ELSE IF bytes = 0 THEN "mmap_reserve"
    ELSE "none"

\* the step that fails when the environment fails step fail: the earlier of
\* fail and the refused step
FailingStep(fail, bytes) ==
    LET forced == Forced(bytes)
    IN  IF fail = "sysconf" \/ forced = "none" THEN fail
        ELSE IF fail = "none" THEN forced
        ELSE IF StepIndex(fail) <= StepIndex(forced) THEN fail
        ELSE forced

\* the calls between the last step and the throw (after the last step, on
\* success)
CleanupLeak(f) ==
    CASE f \in {"ftruncate", "mmap_reserve"} -> <<"close">>
      [] f = "mmap_first"                    -> <<"munmap", "close">>
      [] f = "mmap_second"                   -> <<"munmap">>
      [] f = "none"                          -> <<"close">>
      [] OTHER                               -> <<>>

Cleanup(f) ==
    CASE f \in {"ftruncate", "mmap_reserve"} -> <<"close">>
      [] f \in {"mmap_first", "mmap_second"} -> <<"munmap", "close">>
      [] f = "none"                          -> <<"close">>
      [] OTHER                               -> <<>>

\* the steps that succeeded before f failed
Done(f) == IF f = "none" THEN Len(CtorOrder) ELSE StepIndex(f) - 1

\* descriptors opened and mappings made by the steps that succeeded
Opened(f) == IF Done(f) >= StepIndex("memfd_create") THEN 1 ELSE 0

Mapped(f, bytes) ==
    [reserved |-> IF Done(f) >= StepIndex("mmap_reserve")
                  THEN 2 * bytes ELSE 0,
     first    |-> Done(f) >= StepIndex("mmap_first"),
     second   |-> Done(f) >= StepIndex("mmap_second")]

Count(s, x) == Cardinality({i \in 1..Len(s) : s[i] = x})

\* munmap(m_buffer, 2 * m_size_bytes) drops the whole reservation
Released(m, calls) == IF Count(calls, "munmap") > 0 THEN NoMaps ELSE m

\* the system calls of one constructor call
Calls(f, query) ==
    (IF query THEN <<"sysconf">> ELSE <<>>)
    \o SubSeq(CtorOrder, 2, IF f = "none" THEN Len(CtorOrder) ELSE StepIndex(f))
    \o Cleanup(f)

\* RingBuffer(requested_capacity), with the environment failing step fail.
\* sets: a failing sysconf sets errno. clob: the cleanup call that leaves
\* errno changed ("keep": none does).
construct(requested_capacity, fail, clob, sets) ==
    /\ status = "none"
    /\ LET zero  == ZeroRejected(requested_capacity)
           query == ~zero /\ ~Cached(ps_static)
           bytes == SizeBytes(requested_capacity, elem_size, page_size)
           f     == IF zero THEN "none" ELSE FailingStep(fail, bytes)
           calls == IF zero THEN <<>> ELSE Calls(f, query)
           after == IF f = "sysconf"
                    THEN (IF sets THEN "sysconf" ELSE errno)
                    ELSE IF f = "none" \/ clob = "keep" THEN f
                    ELSE clob
       IN  /\ zero => fail = "none" /\ clob = "keep" /\ sets
           /\ fail = "sysconf" <=> (query /\ f = "sysconf")
           /\ f # "sysconf" => sets
           /\ clob = "keep" \/ (f # "none" /\ Count(Cleanup(f), clob) > 0)
           /\ query => queries < MaxQueries
           /\ queries' = IF query THEN queries + 1 ELSE queries
           /\ ps_static' = IF query /\ f # "sysconf" THEN page_size
                           ELSE ps_static
           /\ oslog' = calls
           /\ fds' = IF zero THEN fds
                     ELSE fds + Opened(f) - Count(Cleanup(f), "close")
           /\ maps' = IF zero THEN maps
                      ELSE Released(Mapped(f, bytes), Cleanup(f))
           /\ errno' = IF zero \/ f = "none" THEN errno ELSE after
           /\ result' =
                IF zero
                THEN [kind |-> "invalid_argument",
                      what |-> "capacity must be greater than zero",
                      code |-> "none", at |-> "argument", cause |-> "none",
                      req |-> requested_capacity]
                ELSE IF f = "none"
                THEN [kind |-> "returned", what |-> "none", code |-> "none",
                      at |-> "none", cause |-> "none",
                      req |-> requested_capacity]
                ELSE [kind |-> "system_error", what |-> What(f),
                      code |-> after, at |-> f,
                      cause |-> IF f = "sysconf" /\ ~sets THEN "unset" ELSE f,
                      req |-> requested_capacity]
           /\ IF ~zero /\ f = "none"
              THEN /\ m_size_bytes' = bytes
                   /\ m_capacity' = Capacity(bytes, elem_size)
                   /\ m_head' = 0
                   /\ m_tail' = 0
                   /\ mem' = [p \in 0..(bytes - 1) |-> 0]
                   /\ status' = "ready"
              ELSE UNCHANGED <<m_size_bytes, m_capacity, m_head, m_tail, mem,
                               status>>
    /\ UNCHANGED <<page_size, elem_size, written, fifo, hist, shadow, objs,
                   unmaps>>

\* ~RingBuffer()
destroy ==
    /\ status = "ready"
    /\ maps' = Released(maps, <<"munmap">>)
    /\ m_size_bytes' = 0
    /\ m_capacity' = 0
    /\ m_head' = 0
    /\ m_tail' = 0
    /\ mem' = <<>>
    /\ status' = "none"
    /\ UNCHANGED <<page_size, elem_size, written, fifo, hist, shadow,
                   ps_static, queries, fds, errno, result, oslog, objs,
                   unmaps>>

\* a process that has not constructed a buffer yet
InitCtor ==
    /\ page_size \in PageSizes
    /\ elem_size \in ElemSizes
    /\ m_size_bytes = 0
    /\ m_capacity = 0
    /\ m_head = 0
    /\ m_tail = 0
    /\ mem = <<>>
    /\ status = "none"
    /\ written = 0
    /\ fifo = <<>>
    /\ hist = <<>>
    /\ shadow = ShadowOff
    /\ ps_static = 0
    /\ queries = 0
    /\ fds = 0
    /\ maps = NoMaps
    /\ errno = "none"
    /\ result = NoResult
    /\ oslog = <<>>
    /\ objs = <<>>
    /\ unmaps = <<>>

\* the requested capacities tried: the small ones, one whose product with a
\* 3-byte element wraps, one whose size is negative as off_t, the largest
CtorReqs == (0..MaxReq) \cup {WordMod \div 3 + 1, WordMod \div 2, WordMod - 1}

NextCtor ==
    \/ \E requested_capacity \in CtorReqs :
       \E fail \in {"none"} \cup {CtorOrder[i] : i \in 1..Len(CtorOrder)} :
       \E clob \in {"keep", "munmap", "close"} :
       \E sets \in BOOLEAN :
          construct(requested_capacity, fail, clob, sets)
    \/ destroy

SpecCtor == InitCtor /\ [][NextCtor]_vars

(* --------------------- objects that are moved around ------------------- *)
\* what the move constructor leaves in other.m_buffer (0: nullptr)
MoveSourceKeep(buffer) == buffer

MoveSource(buffer) == 0

Unborn == [state |-> "unborn", m_buffer |-> 0, m_size_bytes |-> 0]

\* RingBuffer(requested_capacity) returns: object i owns a new region
ConstructObj(i, requested_capacity) ==
    /\ objs[i].state = "unborn"
    /\ objs' = [objs EXCEPT ![i] =
                  [state |-> "live", m_buffer |-> Len(unmaps) + 1,
                   m_size_bytes |-> SizeBytes(requested_capacity, elem_size,
                                              page_size)]]
    /\ unmaps' = Append(unmaps, 0)

\* RingBuffer(RingBuffer&& other): object j is built from object i
MoveConstruct(i, j) ==
    /\ i # j
    /\ objs[i].state = "live"
    /\ objs[j].state = "unborn"
    /\ objs' = [objs EXCEPT
                  ![j] = [state |-> "live", m_buffer |-> objs[i].m_buffer,
                          m_size_bytes |-> objs[i].m_size_bytes],
                  ![i].m_buffer = MoveSource(objs[i].m_buffer)]
    /\ UNCHANGED unmaps

\* ~RingBuffer() of object i
DestroyObj(i) ==
    /\ objs[i].state = "live"
    /\ objs' = [objs EXCEPT ![i].state = "dead"]
    /\ unmaps' = IF objs[i].m_buffer # 0
                 THEN [unmaps EXCEPT ![objs[i].m_buffer] = @ + 1]
                 ELSE unmaps

InitOwn ==
    /\ page_size \in PageSizes
    /\ elem_size \in ElemSizes
    /\ m_size_bytes = 0
    /\ m_capacity = 0
    /\ m_head = 0
    /\ m_tail = 0
    /\ mem = <<>>
    /\ status = "none"
    /\ written = 0
    /\ fifo = <<>>
    /\ hist = <<>>
    /\ shadow = ShadowOff
    /\ ps_static = 0
    /\ queries = 0
    /\ fds = 0
    /\ maps = NoMaps
    /\ errno = "none"
    /\ result = NoResult
    /\ oslog = <<>>
    /\ objs = [i \in 1..MaxObjs |-> Unborn]
    /\ unmaps = <<>>

ownIdle ==
    <<page_size, elem_size, m_size_bytes, m_capacity, m_head, m_tail, mem,
      status, written, fifo, hist, shadow, ps_static, queries, fds, maps,
      errno, result, oslog>>

NextOwn ==
    \/ \E i \in 1..MaxObjs : \E requested_capacity \in 1..MaxReq :
          ConstructObj(i, requested_capacity) /\ UNCHANGED ownIdle
    \/ \E i \in 1..MaxObjs : \E j \in 1..MaxObjs :
          MoveConstruct(i, j) /\ UNCHANGED ownIdle
    \/ \E i \in 1..MaxObjs : DestroyObj(i) /\ UNCHANGED ownIdle

SpecOwn == InitOwn /\ [][NextOwn]_vars

(* ------------------------------ claims -------------------------------- *)
Last == hist[Len(hist)]

\* the k-th latest call (k = 1: the latest)
Back(k) == hist[Len(hist) + 1 - k]

PreSize(r) == r.head - r.tail

\* r is a completed write of at most capacity elements to an empty buffer
WriteToEmpty(r) ==
    r.op = "write" /\ r.done /\ r.head = r.tail /\ r.arg <= m_capacity

\* sizeof(T) does not divide m_size_bytes: slot m_capacity + j is not the
\* same bytes as slot j
Misaligned == m_capacity * elem_size # m_size_bytes

\* C1: head >= tail in every state reachable by writes of any length, reads
\* and clears, and head - tail <= capacity right after every completed write.
C1_CursorOrder ==
    /\ m_head >= m_tail
    /\ (hist # <<>> /\ Last.op = "write" /\ Last.done) => m_head - m_tail <= m_capacity

\* a write that had to discard: it did not fit in the free space
C1_Witness ==
    /\ hist # <<>> /\ Last.op = "write" /\ Last.done
    /\ PreSize(Last) + Last.arg > m_capacity
    /\ m_tail > Last.tail

\* C3: a write of k <= capacity elements to an empty buffer followed at once
\* by a read with an output of k elements returns k, delivers the elements
\* in their order and leaves the buffer empty.
C3_RoundTrip ==
    (/\ Len(hist) >= 2
     /\ WriteToEmpty(Back(2))
     /\ Last.op = "read" /\ Last.arg = Back(2).arg)
    => (/\ Last.done
        /\ Last.ret = Back(2).arg
        /\ Last.out = Back(2).data
        /\ empty)

\* a round trip that straddles the end of the first mapping, in a buffer
\* whose element size does not divide the region
C3_Witness ==
    /\ Len(hist) >= 2
    /\ WriteToEmpty(Back(2))
    /\ Last.op = "read" /\ Last.arg = Back(2).arg
    /\ Back(2).arg >= 2
    /\ Back(2).off + Back(2).arg > m_capacity
    /\ Misaligned
    /\ Last.out = Back(2).data

\* C8: write validates no length: all L elements are copied from slot
\* head % capacity on, so the copy leaves the reservation exactly when
\* (head % capacity + L) * sizeof(T) > 2 * m_size_bytes, which needs
\* L > capacity and happens at a start slot other than 0.
C8_NoLengthValidation ==
    (hist # <<>> /\ Last.op = "write")
    => (/\ Last.outside <=> ((Last.off + Last.arg) * elem_size > 2 * m_size_bytes)
        /\ Last.outside => Last.arg > m_capacity
        /\ Last.off = Last.head % m_capacity)

\* the bad state: start slot not 0, L > capacity, slots at or beyond
\* 2 * capacity addressed and the copy outside the reservation
C8_Witness ==
    /\ hist # <<>> /\ Last.op = "write"
    /\ Last.head % m_capacity # 0
    /\ Last.arg > m_capacity
    /\ Last.off + Last.arg > 2 * m_capacity
    /\ Last.outside

\* C9: a completed write of L elements takes size() from s to
\* min(s + L, capacity); a read with an output of M elements takes it from s
\* to s - min(s, M) and returns min(s, M); empty() is size() = 0.
C9_SizeAccounting ==
    (hist # <<>> /\ Last.done)
    => (/\ Last.op = "write" => size = Min(PreSize(Last) + Last.arg, m_capacity)
        /\ Last.op = "read" => (/\ size = PreSize(Last) - Min(PreSize(Last), Last.arg)
                                /\ Last.ret = Min(PreSize(Last), Last.arg))
        /\ empty <=> size = 0)

\* a read that takes some but not all of what is stored
C9_Witness ==
    /\ hist # <<>> /\ Last.op = "read" /\ Last.done
    /\ Last.arg > 0
    /\ Last.arg < PreSize(Last)
    /\ size = PreSize(Last) - Last.arg

\* C10: a read on an empty buffer (any output size) and a read with an output
\* of 0 elements return 0, copy nothing, leave head, tail and the backing
\* bytes as they were and do not fail; the empty buffer stays empty.
C10_EmptyRead ==
    [][(/\ hist' # <<>>
        /\ hist'[Len(hist')].op = "read"
        /\ (m_head = m_tail \/ hist'[Len(hist')].arg = 0))
       => (/\ hist'[Len(hist')].done
           /\ hist'[Len(hist')].ret = 0
           /\ hist'[Len(hist')].out = <<>>
           /\ m_head' = m_head
           /\ m_tail' = m_tail
           /\ mem' = mem
           /\ status' = status
           /\ (m_head = m_tail => m_head' = m_tail'))]_vars

\* a read with a nonempty output on a buffer emptied by clear, stale bytes
\* still in the backing memory
C10_Witness ==
    /\ hist # <<>> /\ Last.op = "read"
    /\ Last.head = Last.tail
    /\ Last.arg > 0
    /\ Last.ret = 0
    /\ m_head = 0 /\ m_tail = 0
    /\ \E p \in DOMAIN mem : mem[p] # 0

\* C2: with every write of at most capacity elements, each read with an
\* output of M elements returns the first min(len, M) elements of the
\* reference drop-oldest sequence, in order, and the buffer holds exactly
\* that sequence: the most recently written elements not yet read.
C2_DropOldestFifo ==
    /\ (hist # <<>> /\ Last.op = "read")
       => (/\ Last.done
           /\ Last.ret = Len(Last.data)
           /\ Last.out = Last.data)
    /\ Contents = fifo

\* C4: a write of a <= capacity elements to an empty buffer, then a write of
\* b <= capacity elements with a + b > capacity: size() is capacity and a
\* read of capacity elements delivers the last capacity - b elements of the
\* first write followed by the b elements of the second.
C4_OverwriteAcrossWrap ==
    (/\ Len(hist) >= 3
     /\ WriteToEmpty(Back(3))
     /\ Back(2).op = "write" /\ Back(2).done /\ Back(2).arg <= m_capacity
     /\ Back(3).arg + Back(2).arg > m_capacity
     /\ Last.op = "read" /\ Last.arg = m_capacity)
    => (/\ PreSize(Last) = m_capacity
        /\ Last.ret = m_capacity
        /\ Last.out = LastN(Back(3).data, m_capacity - Back(2).arg) \o Back(2).data)

\* C5: after a write of capacity - 10 elements to an empty buffer and a write
\* of 12 elements n1..n12, size() is capacity and a read of capacity
\* elements has n1 at output index capacity - 10 and n10 at output index
\* capacity - 1 (indices from 0).
C5_WrapAroundTest ==
    (/\ Len(hist) >= 3
     /\ WriteToEmpty(Back(3)) /\ Back(3).arg = m_capacity - WrapShort
     /\ Back(2).op = "write" /\ Back(2).done /\ Back(2).arg = WrapOverlap
     /\ Last.op = "read" /\ Last.arg = m_capacity)
    => (/\ PreSize(Last) = m_capacity
        /\ Last.out[m_capacity - WrapShort + 1] = Back(2).data[1]
        /\ Last.out[m_capacity] = Back(2).data[WrapShort])

\* C6: after a write of n <= capacity elements to an empty buffer, a read
\* with an output of M < n elements returns M, delivers the M oldest and
\* leaves size() = n - M; a following read with an output of at least n - M
\* elements returns n - M, delivers the rest in order and empties the buffer.
C6_PartialRead ==
    /\ (/\ Len(hist) >= 2
        /\ WriteToEmpty(Back(2))
        /\ Last.op = "read" /\ Last.arg < Back(2).arg)
       => (/\ Last.ret = Last.arg
           /\ Last.out = FirstN(Back(2).data, Last.arg)
           /\ size = Back(2).arg - Last.arg)
    /\ (/\ Len(hist) >= 3
        /\ WriteToEmpty(Back(3))
        /\ Back(2).op = "read" /\ Back(2).arg < Back(3).arg
        /\ Last.op = "read" /\ Last.arg >= Back(3).arg - Back(2).arg)
       => (/\ Last.ret = Back(3).arg - Back(2).arg
           /\ Last.out = DropN(Back(3).data, Back(2).arg)
           /\ empty)

\* C7: one write of 2 * capacity elements to an empty buffer at start slot 0
\* stays inside the reservation and leaves size() = capacity, and a
\* following read of capacity elements delivers the last capacity elements
\* of the input.
C7_LargeInputOverwrite ==
    /\ (/\ hist # <<>>
        /\ Last.op = "write" /\ Last.head = Last.tail /\ Last.off = 0
        /\ Last.arg = 2 * m_capacity)
       => (~Last.outside /\ Last.done /\ size = m_capacity)
    /\ (/\ Len(hist) >= 2
        /\ Back(2).op = "write" /\ Back(2).head = Back(2).tail /\ Back(2).off = 0
        /\ Back(2).arg = 2 * m_capacity
        /\ Last.op = "read" /\ Last.arg = m_capacity)
       => (/\ Last.ret = m_capacity
           /\ Last.out = LastN(Back(2).data, m_capacity))

\* C13: for every element size and every j in [0, capacity), slot
\* capacity + j of the double mapping is the same backing bytes as slot j,
\* so that the elements of one contiguous copy of at most capacity elements
\* lie in the slots (logical index mod capacity).
C13_ElementMirror ==
    /\ \A j \in 0..(m_capacity - 1) : \A k \in 0..(elem_size - 1) :
          Phys((m_capacity + j) * elem_size + k, m_size_bytes)
              = Phys(j * elem_size + k, m_size_bytes)
    /\ (hist # <<>> /\ Last.op = "write" /\ Last.done /\ Last.arg <= m_capacity)
       => \A i \in 1..Last.arg :
             CopyOut(mem, ((Last.head + i - 1) % m_capacity) * elem_size, 1,
                     elem_size, m_size_bytes) = <<Last.data[i]>>

\* C19: a write or read step never lowers head or tail; a write moves tail
\* only to head' - capacity and only when it overflows, a read leaves head
\* alone; head or tail go down only in a clear step, which sets both to 0.
C19_CursorMonotone ==
    [][(hist' # <<>>)
       => (/\ hist'[Len(hist')].op = "write"
              => (/\ m_head' >= m_head
                  /\ m_tail' >= m_tail
                  /\ m_tail' # m_tail
                     => (m_tail' = m_head' - m_capacity /\ m_head' - m_tail > m_capacity))
           /\ hist'[Len(hist')].op = "read"
              => (m_head' = m_head /\ m_tail' >= m_tail)
           /\ (m_head' < m_head \/ m_tail' < m_tail)
              => (hist'[Len(hist')].op = "clear" /\ m_head' = 0 /\ m_tail' = 0))]_vars

\* a write that overflowed a buffer whose tail was already past capacity
C19_Witness ==
    /\ hist # <<>> /\ Last.op = "write" /\ Last.done
    /\ Last.tail >= m_capacity
    /\ m_tail > Last.tail
    /\ m_tail = m_head - m_capacity

\* C20: with every write of at most capacity elements, each write copies to
\* the slots [head % capacity, head % capacity + L) and each read from the
\* slots [tail % capacity, tail % capacity + to_copy), to_copy <= capacity;
\* both ranges lie in [0, 2 * capacity) and no byte copied lies outside the
\* reservation.
C20_MemorySafe ==
    /\ status = "ready"
    /\ hist # <<>>
       => (/\ Last.done
           /\ ~Last.outside
           /\ Last.op = "write"
              => (/\ Last.off = Last.head % m_capacity
                  /\ Last.off + Last.arg <= 2 * m_capacity
                  /\ (Last.off + Last.arg) * elem_size <= 2 * m_size_bytes)
           /\ Last.op = "read"
              => (/\ Last.off = Last.tail % m_capacity
                  /\ Last.ret <= m_capacity
                  /\ Last.off + Last.ret <= 2 * m_capacity
                  /\ (Last.off + Last.ret) * elem_size <= 2 * m_size_bytes))

\* a write of capacity elements from the last slot of the first mapping,
\* and the read of all of them from there
C20_Witness ==
    /\ Len(hist) >= 2
    /\ m_capacity >= 2
    /\ Back(2).op = "write" /\ Back(2).arg = m_capacity
    /\ Back(2).off = m_capacity - 1
    /\ Last.op = "read" /\ Last.ret = m_capacity
    /\ Last.off = m_capacity - 1

\* C11: after clear, size() is 0, empty() holds and capacity() is what it
\* was; from then on every read returns the count and the elements, and
\* size() and empty() the values, that a freshly constructed buffer of the
\* same capacity gives for the same calls (writes of at most capacity
\* elements); a clear directly after a clear changes nothing.
C11_ClearIsFresh ==
    [][/\ hist'[Len(hist')].op = "clear"
          => (m_head' = m_tail' /\ m_head' - m_tail' = 0 /\ m_capacity' = m_capacity)
       /\ shadow'.on
          => (/\ m_head' - m_tail' = shadow'.head - shadow'.tail
              /\ (m_head' = m_tail') <=> (shadow'.head = shadow'.tail)
              /\ hist'[Len(hist')].op = "read"
                 => (/\ hist'[Len(hist')].ret = shadow'.ret
                     /\ hist'[Len(hist')].out = shadow'.out))
       /\ (hist # <<>> /\ Last.op = "clear" /\ hist'[Len(hist')].op = "clear")
          => (m_head' = m_head /\ m_tail' = m_tail /\ mem' = mem /\ shadow' = shadow)]_vars

\* C16: a requested capacity of 0 is rejected with std::invalid_argument, and
\* only a requested capacity of 0 is; the rejected call made no system call
\* (no page-size query either), holds no descriptor and no mapping, and left
\* no buffer object.
C16_ZeroCapacityRejected ==
    /\ result.kind = "invalid_argument" => result.req = 0
    /\ (result.kind # "none" /\ result.req = 0) =>
          /\ result.kind = "invalid_argument"
          /\ oslog = <<>>
          /\ fds = 0
          /\ maps = NoMaps
          /\ status = "none"

\* the first constructor call of the process was RingBuffer(0): rejected before
\* the page size was ever asked for
C16_Witness ==
    /\ result.kind = "invalid_argument"
    /\ result.req = 0
    /\ queries = 0
    /\ ps_static = 0

Reverse(s) == [i \in 1..Len(s) |-> s[Len(s) + 1 - i]]

\* the call that releases what a step acquired
ReleaseOf(step) == IF step = "memfd_create" THEN "close" ELSE "munmap"

\* the steps that acquired a resource before step at failed
Acquired(at) ==
    SelectSeq(CtorOrder, LAMBDA s : /\ s \in {"memfd_create", "mmap_reserve"}
                                    /\ StepIndex(s) < StepIndex(at))

Releases(log) == SelectSeq(log, LAMBDA c : c \in {"munmap", "close"})

\* C14: a constructor call that threw a system error holds no descriptor and
\* no mapping, left no object, and released what it had acquired in reverse
\* order of acquisition; a constructor call that returned left the descriptor
\* closed, exactly the reservation of 2 * m_size_bytes with both halves
\* mapped, and head = tail = 0.
C14_AllOrNothing ==
    /\ result.kind = "system_error" =>
          /\ fds = 0
          /\ maps = NoMaps
          /\ status = "none"
          /\ Releases(oslog) =
                Reverse([i \in 1..Len(Acquired(result.at)) |->
                            ReleaseOf(Acquired(result.at)[i])])
    /\ (result.kind = "returned" /\ status = "ready") =>
          /\ fds = 0
          /\ maps = BothHalves(m_size_bytes)
          /\ m_size_bytes > 0
          /\ m_head = 0
          /\ m_tail = 0

\* the second fixed mapping failed: descriptor, reservation and first half
\* were all held at that point
C14_Witness ==
    /\ result.kind = "system_error"
    /\ result.at = "mmap_second"
    /\ Releases(oslog) = <<"munmap", "close">>

\* the smallest multiple of ps that is >= n
SmallestMultiple(ps, n) == SetMin({m \in n..(n + ps) : m % ps = 0})

\* C12: after RingBuffer(requested) returned, requested >= 1,
\* capacity() * sizeof(T) is the smallest multiple of the page size that is
\* >= the word product requested * sizeof(T), and capacity() >= requested.
C12_CapacityRounding ==
    (result.kind = "returned" /\ status = "ready") =>
        /\ result.req >= 1
        /\ capacity * elem_size =
              SmallestMultiple(page_size, Word(result.req * elem_size))
        /\ capacity >= result.req

\* C17: the system error of a failed constructor call names the step that
\* failed and carries the error code that step produced.
C17_ErrorIdentifiesStep ==
    result.kind = "system_error" =>
        /\ result.what = What(result.at)
        /\ result.code = result.cause

\* C18 as stated: the page size is asked for at most once in the process.
C18_QueriedOnce == queries <= 1

\* C18: once a page-size query has succeeded the value is cached and no later
\* construction queries again; while no query has succeeded, every
\* construction that gets past the argument check queries exactly once, so a
\* failed query is issued again by the next construction.
C18_QueryCached ==
    [][ /\ Cached(ps_static) => (queries' = queries /\ ps_static' = ps_static)
        /\ queries' # queries => queries' = queries + 1
        /\ (~Cached(ps_static) /\ (status' = "ready" \/ ps_static' # ps_static))
              => (queries' = queries + 1 /\ ps_static' = page_size)
        /\ (~Cached(ps_static) /\ queries' # queries /\ ~Cached(ps_static'))
              => (result'.kind = "system_error" /\ result'.at = "sysconf")
      ]_vars

\* a query failed, a later one succeeded, and a buffer was built on the
\* cached value
C18_Witness ==
    /\ queries >= 2
    /\ ps_static = page_size
    /\ status = "ready"
    /\ result.kind = "returned"
    /\ oslog[1] = "memfd_create"

\* the live objects whose m_buffer is region r
Holders(r) ==
    {i \in DOMAIN objs : objs[i].state = "live" /\ objs[i].m_buffer = r}

\* C15: after any sequence of constructions, move constructions and
\* destructions, every region is referenced by at most one live object, has
\* been unmapped at most once, and has been unmapped exactly when no live
\* object references it any more; a moved-from object holds nullptr.
C15_SingleOwner ==
    /\ \A r \in DOMAIN unmaps :
          /\ Cardinality(Holders(r)) <= 1
          /\ unmaps[r] <= 1
          /\ unmaps[r] = 1 <=> Holders(r) = {}
    /\ \A i \in DOMAIN objs :
          objs[i].m_buffer # 0 => objs[i].m_buffer \in DOMAIN unmaps

\* a region went through a move: the moved-from object and the object it was
\* moved into have both been destroyed, and the region was unmapped once
C15_Witness ==
    \E r \in DOMAIN unmaps : \E i \in DOMAIN objs : \E j \in DOMAIN objs :
        /\ i # j
        /\ objs[i].state = "dead" /\ objs[i].m_buffer = 0
        /\ objs[j].state = "dead" /\ objs[j].m_buffer = r
        /\ unmaps[r] = 1

====
